---- MODULE Spec2Model ----
(***************************************************************************)
(* A model of plugin/common/bertCommon.h: the cuBLAS configuration scope   *)
(* guard, the owning weight buffer and its conversions, the cursor based   *)
(* (de)serialisation helpers and the small numeric helpers.                *)
(***************************************************************************)
EXTENDS Integers, Sequences, FiniteSets, TLC

VARIABLES handle, guards, gLast, w, content, heap, alive, wLast, call, rt,
          ser, wcur, rcur, written, nread, sLast

gvars == <<handle, guards, gLast>>

wvars == <<w, content, heap, alive, wLast>>

svars == <<ser, wcur, rcur, written, nread, sLast>>

vars == <<handle, guards, gLast, w, content, heap, alive, wLast, call, rt,
          ser, wcur, rcur, written, nread, sLast>>

(***************************************************************************)
(* Bounds of the model.                                                    *)
(***************************************************************************)
\* deepest nesting of live CublasConfigHelper objects
MaxDepth == 3

\* most elements of a weight buffer
MaxCount == 2

\* most buffers one WeightsWithOwnership object allocates in its life
MaxAllocs == 2

(***************************************************************************)
(* CublasConfigHelper (lines 271-289)                                      *)
(***************************************************************************)
\* cublasPointerMode_t
PointerModes == {"CUBLAS_POINTER_MODE_HOST", "CUBLAS_POINTER_MODE_DEVICE"}

\* cublasMath_t
MathModes == {"CUBLAS_DEFAULT_MATH", "CUBLAS_TENSOR_OP_MATH", "CUBLAS_PEDANTIC_MATH",
              "CUBLAS_TF32_TENSOR_OP_MATH"}

\* the configuration a cublasHandle_t carries
HandleStates == [pm : PointerModes, mm : MathModes]

\* How a guarded region is left.
ExitKinds == {"normal", "exception"}

\* The constructor makes four checked library calls; FailAt = 0 is the run in which
\* none of them reports an error, FailAt = k the run in which the k-th does.
CtorCalls == 0 .. 4

GuardIdle == [op |-> "none", pre |-> [pm |-> "CUBLAS_POINTER_MODE_HOST", mm |-> "CUBLAS_DEFAULT_MATH"],
              failAt |-> 0, how |-> "normal"]

GInit ==
    /\ handle \in HandleStates
    /\ guards = << >>
    /\ gLast = GuardIdle

\* The handle after the constructor's calls, when the failAt-th call reports an error
\* (a call that reports an error changes nothing; the calls after it are not made).
CtorHandle(h, failAt) ==
    LET afterPm == IF failAt = 0 \/ failAt > 3
                   THEN [h EXCEPT !.pm = "CUBLAS_POINTER_MODE_HOST"] ELSE h
    IN  IF failAt = 0 THEN [afterPm EXCEPT !.mm = "CUBLAS_TENSOR_OP_MATH"] ELSE afterPm

\* CublasConfigHelper(cublas_): pm and mm are read from the handle, then overridden.
\* The field before is not a member of the struct: it records the handle as it was
\* when the constructor was entered.
Construct(failAt) ==
    /\ Len(guards) < MaxDepth
    /\ handle' = CtorHandle(handle, failAt)
    /\ guards' = IF failAt = 0
                 THEN Append(guards, [pm |-> handle.pm, mm |-> handle.mm, before |-> handle])
                 ELSE guards
    /\ gLast' = [op |-> IF failAt = 0 THEN "ctor" ELSE "ctorFailed",
                 pre |-> handle, failAt |-> failAt, how |-> "normal"]
    /\ UNCHANGED <<wvars, svars, call, rt>>

\* a destructor that restores the math mode and forgets the pointer mode
DtorHandleMathOnly(h, g) == [h EXCEPT !.mm = g.mm]

\* What the destructor of guard g leaves in the handle.
DtorHandle(h, g) == [[h EXCEPT !.mm = g.mm] EXCEPT !.pm = g.pm]

\* ~CublasConfigHelper(): runs when the innermost guarded region is left, normally
\* or by an exception.
Destroy(how) ==
    /\ guards # << >>
    /\ LET g == guards[Len(guards)]
       IN  /\ handle' = DtorHandle(handle, g)
           /\ gLast' = [op |-> "dtor", pre |-> g.before, failAt |-> 0, how |-> how]
    /\ guards' = SubSeq(guards, 1, Len(guards) - 1)
    /\ UNCHANGED <<wvars, svars, call, rt>>

GuardNext ==
    \/ \E failAt \in CtorCalls : Construct(failAt)
    \/ \E how \in ExitKinds : Destroy(how)

(***************************************************************************)
(* Numeric types and their values                                          *)
(***************************************************************************)
\* nvinfer1::DataType, the enumerators getElementSize switches over
DataType == {"kFLOAT", "kHALF", "kINT8", "kINT32", "kBOOL", "kUINT8", "kFP8"}

\* nvinfer1::PluginFieldType
PluginFieldType == {"kFLOAT16", "kFLOAT32", "kFLOAT64", "kINT8", "kINT16", "kINT32",
                    "kCHAR", "kDIMS", "kUNKNOWN", "kBF16", "kINT64", "kFP8"}

getElementSize(t) ==
    CASE t = "kINT32" -> 4
      [] t = "kFLOAT" -> 4
      [] t = "kHALF" -> 2
      [] t \in {"kBOOL", "kUINT8", "kINT8", "kFP8"} -> 1
      [] OTHER -> 0

\* getWeightsSize(wt, type): the count of wt times the element size of type
getWeightsSize(wt, type) == wt.count * getElementSize(type)

\* The two floating-point formats, scaled down.  A float is an integer of magnitude
\* at most FloatMax, an infinity or a NaN.  A half has a significand of HalfMantBits
\* bits and an exponent in 0 .. HalfMaxExp: its finite values are s * m * 2^e.
HalfMantBits == 2
HalfMaxExp == 2

Pow2(n) == IF n <= 0 THEN 1 ELSE 2 ^ n

Abs(x) == IF x < 0 THEN -x ELSE x

Sign(x) == IF x < 0 THEN -1 ELSE 1

\* the largest finite half
HalfMax == (Pow2(HalfMantBits) - 1) * Pow2(HalfMaxExp)

\* floats reach beyond the range of half
FloatMax == HalfMax + 2 * Pow2(HalfMaxExp)

FloatNaN == [k |-> "nan", v |-> 0]

FloatInf(s) == [k |-> "inf", v |-> s]

FloatFin(v) == [k |-> "fin", v |-> v]

FloatVals == {FloatFin(v) : v \in -FloatMax .. FloatMax} \cup {FloatInf(1), FloatInf(-1), FloatNaN}

HalfNaN == [k |-> "nan", s |-> 1, m |-> 0, e |-> 0]

HalfInf(s) == [k |-> "inf", s |-> s, m |-> 0, e |-> 0]

\* the normalised encodings: below the first binade every significand, above it
\* only those with the top bit set; zero has the sign +
HalfFinite ==
    {h \in [k : {"fin"}, s : {1, -1}, m : 0 .. Pow2(HalfMantBits) - 1, e : 0 .. HalfMaxExp] :
        /\ (h.e > 0 => h.m >= Pow2(HalfMantBits - 1))
        /\ (h.m = 0 => h.s = 1)}

HalfVals == HalfFinite \cup {HalfInf(1), HalfInf(-1), HalfNaN}

\* __half2float: exact widening
half2float(h) ==
    CASE h.k = "nan" -> FloatNaN
      [] h.k = "inf" -> FloatInf(h.s)
      [] OTHER -> FloatFin(h.s * h.m * Pow2(h.e))

\* the exponent of the binade of half that holds the magnitude a
RECURSIVE HalfExp(_, _)
HalfExp(a, e) ==
    IF a < Pow2(HalfMantBits) * Pow2(e) \/ e >= HalfMaxExp THEN e ELSE HalfExp(a, e + 1)

\* a rounding that truncates
RoundTowardZero(a, e) == a \div Pow2(e)

\* the significand of a in units of 2^e, rounded to nearest, ties to even
RoundNearestEven(a, e) ==
    LET q == Pow2(e)
        n == a \div q
        r == a % q
    IN  IF 2 * r > q \/ (2 * r = q /\ n % 2 = 1) THEN n + 1 ELSE n

\* __float2half: round to nearest even; what rounds beyond the largest half is an infinity
float2half(x) ==
    CASE x.k = "nan" -> HalfNaN
      [] x.k = "inf" -> HalfInf(x.v)
      [] OTHER ->
            LET a == Abs(x.v)
                e == HalfExp(a, 0)
                n == RoundNearestEven(a, e)
                \* a carry out of the significand moves to the next binade
                carry == n >= Pow2(HalfMantBits)
                m2 == IF carry THEN Pow2(HalfMantBits - 1) ELSE n
                e2 == IF carry THEN e + 1 ELSE e
            IN  IF e2 > HalfMaxExp THEN HalfInf(Sign(x.v))
                ELSE [k |-> "fin", s |-> IF m2 = 0 THEN 1 ELSE Sign(x.v), m |-> m2, e |-> e2]

(***************************************************************************)
(* WeightsWithOwnership (lines 312-399)                                    *)
(***************************************************************************)
SizeofFloat == 4

SizeofHalf == 2

SeqsUpTo(S, n) == UNION {[1 .. k -> S] : k \in 0 .. n}

\* what new T[n] holds before it is written
Uninit(n) == [i \in 1 .. n |-> [k |-> "uninit", v |-> 0]]

\* The values the source buffers of the ownership model are drawn from: a float that
\* half rounds, one beyond the range of half; two halves; one integer word.
FloatSample == {FloatFin(HalfMax - 1), FloatFin(-FloatMax)}

HalfSample == {HalfInf(1), float2half(FloatFin(-HalfMax))}

IntSample == {[k |-> "int", v |-> 7]}

SampleOf(t) == IF t = "kFLOAT" THEN FloatSample ELSE IF t = "kHALF" THEN HalfSample ELSE IntSample

\* nvinfer1::Weights values {type, values, count}: the buffer holds count elements of type
SrcWeights ==
    UNION {{[type |-> t, count |-> Len(vs), values |-> vs] : vs \in SeqsUpTo(SampleOf(t), MaxCount)} :
             t \in DataType}

NullPtr == 0

\* WeightsWithOwnership(): values = nullptr, count = 0; type is not initialised
WInit ==
    /\ w \in [type : DataType, count : {0}, values : {NullPtr}]
    /\ content = << >>
    /\ heap = << >>
    /\ alive = TRUE
    /\ wLast = [op |-> "construct", outcome |-> "ok"]

\* new float[src.count] and what lines 339-356 write there
ToFloatBuffer(src) ==
    IF src.type = "kFLOAT"
    THEN [outcome |-> "ok", bytes |-> SizeofFloat * src.count, data |-> src.values]
    ELSE IF src.type = "kHALF"
         THEN [outcome |-> "ok", bytes |-> SizeofFloat * src.count,
               data |-> [i \in 1 .. src.count |-> half2float(src.values[i])]]
         ELSE [outcome |-> "assert", bytes |-> SizeofFloat * src.count, data |-> Uninit(src.count)]

\* new half[src.count] and what lines 363-380 write there
ToHalfBuffer(src) ==
    IF src.type = "kHALF"
    THEN [outcome |-> "ok", bytes |-> SizeofHalf * src.count, data |-> src.values]
    ELSE IF src.type = "kFLOAT"
         THEN [outcome |-> "ok", bytes |-> SizeofHalf * src.count,
               data |-> [i \in 1 .. src.count |-> float2half(src.values[i])]]
         ELSE [outcome |-> "assert", bytes |-> SizeofHalf * src.count, data |-> Uninit(src.count)]

\* a conversion without the final else: what is not kFLOAT is taken for kHALF
ConvertElementsNoElse(src, type) == IF type = "kFLOAT" THEN ToFloatBuffer(src) ELSE ToHalfBuffer(src)

\* The body of convertAndCopy(src, type) after type and count are stored: the buffer
\* it allocates (bytes < 0: none), what it writes there and how it ends.
ConvertElements(src, type) ==
    IF type = "kFLOAT" THEN ToFloatBuffer(src)
    ELSE IF type = "kHALF" THEN ToHalfBuffer(src)
    ELSE [outcome |-> "unsupported_type", bytes |-> -1, data |-> << >>]

\* The members after convertAndCopy(src, type): type and count are stored first,
\* values is overwritten when a buffer was allocated, with the pointer to it (next).
Stored(self, type, count, r, next) ==
    [type |-> type, count |-> count, values |-> IF r.bytes >= 0 THEN next ELSE self.values]

\* void convertAndCopy(Weights const& src, DataType type)
convertAndCopy(src, type) ==
    /\ alive
    /\ LET r == ConvertElements(src, type)
       IN  /\ r.bytes >= 0 => Len(heap) < MaxAllocs
           /\ w' = Stored(w, type, src.count, r, Len(heap) + 1)
           /\ heap' = IF r.bytes >= 0 THEN Append(heap, [bytes |-> r.bytes, released |-> 0]) ELSE heap
           /\ content' = IF r.bytes >= 0 THEN r.data ELSE content
           /\ wLast' = [op |-> "convertAndCopy", outcome |-> r.outcome]
    /\ UNCHANGED <<alive, gvars, svars, call, rt>>

\* Serialized bytes
Bytes == {0, 1}

\* a read that leaves the cursor where it was
RawReadNoAdvance(buf, cur, nbBytes) == [data |-> SubSeq(buf, cur + 1, cur + nbBytes), cursor |-> cur]

\* The bytes a cursor based read copies and where it leaves the cursor: nbBytes bytes
\* from the cursor cur (an offset into buf) on.
RawRead(buf, cur, nbBytes) == [data |-> SubSeq(buf, cur + 1, cur + nbBytes), cursor |-> cur + nbBytes]

\* the byte count convertAndCopy(srcBuf, count, type) computes from its own members
RawBytes(count, type) == getWeightsSize([type |-> type, count |-> count], type)

\* the serialized buffers the ownership model reads from
RawSample == {[i \in 1 .. MaxCount * SizeofFloat |-> 0], [i \in 1 .. MaxCount * SizeofFloat |-> i % 2]}

\* void convertAndCopy(char const*& srcBuf, size_t count, DataType type) noexcept
\* The caller passes a buffer that holds the bytes that are read.
convertAndCopyRaw(buf, cur, count, type) ==
    /\ alive
    /\ Len(heap) < MaxAllocs
    /\ LET nbBytes == RawBytes(count, type)
           r == RawRead(buf, cur, nbBytes)
       IN  /\ cur + nbBytes <= Len(buf)
           /\ w' = [type |-> type, count |-> count, values |-> Len(heap) + 1]
           /\ heap' = Append(heap, [bytes |-> nbBytes, released |-> 0])
           /\ content' = r.data
           /\ wLast' = [op |-> "convertAndCopyRaw", outcome |-> "ok"]
    /\ UNCHANGED <<alive, gvars, svars, call, rt>>

\* operator delete[] on the heap: a null pointer is ignored
Release(h, ptr) == IF ptr = NullPtr THEN h ELSE [h EXCEPT ![ptr].released = @ + 1]

\* ~WeightsWithOwnership()
destroyWeights ==
    /\ alive
    /\ alive' = FALSE
    /\ heap' = Release(heap, w.values)
    /\ wLast' = [op |-> "destroy", outcome |-> "ok"]
    /\ UNCHANGED <<w, content, gvars, svars, call, rt>>

WeightsNext ==
    \/ \E src \in SrcWeights, type \in DataType : convertAndCopy(src, type)
    \/ \E buf \in RawSample, cur \in 0 .. MaxCount, count \in 0 .. MaxCount, type \in DataType :
          convertAndCopyRaw(buf, cur, count, type)
    \/ destroyWeights

(***************************************************************************)
(* The free functions, called on inputs of every kind                      *)
(***************************************************************************)
\* width, in bits, of the unsigned IntType that ceildiv and alignTo are instantiated with
IntBits == 4

IntModulus == Pow2(IntBits)

IntMax == IntModulus - 1

kSM_53 == 53
kSM_70 == 70
kSM_72 == 72
kSM_75 == 75
kSM_80 == 80
kSM_86 == 86
kSM_87 == 87
kSM_89 == 89
kSM_90 == 90

threadsPerCta128 == 2 * 2 * 32

threadsPerCta384 == 1 * 8 * 32

xmmasM128 == 4

xmmasM384 == 24

unfusedMaskSize == 1

packedMaskSize64 == xmmasM128 * threadsPerCta128

packedMaskSize96 == xmmasM128 * threadsPerCta128

packedMaskSize128 == xmmasM128 * threadsPerCta128

packedMaskSize384 == xmmasM384 * threadsPerCta384

\* a list of generations that misses the newest one
isSmOKWithout90(smVersion) == smVersion \in {kSM_75, kSM_80, kSM_86, kSM_87}

isSmOK(smVersion) == smVersion \in {kSM_75, kSM_80, kSM_86, kSM_87, kSM_90}

isPrecisionOK(dataType) == dataType \in {"kINT8", "kHALF"}

getMHAMaskPackedSize(smVersion, dataType, sequenceLength) ==
    IF isSmOK(smVersion) /\ isPrecisionOK(dataType)
    THEN CASE sequenceLength = 64 -> packedMaskSize64
           [] sequenceLength = 96 -> packedMaskSize96
           [] sequenceLength = 128 -> packedMaskSize128
           [] sequenceLength = 384 -> packedMaskSize384
           [] OTHER -> unfusedMaskSize
    ELSE unfusedMaskSize

\* the hardware generations and sequence lengths the lookup is called with: the
\* declared generations and two that are not, the four special lengths and others
SmVersions == {kSM_53, kSM_70, kSM_72, kSM_75, kSM_80, kSM_86, kSM_87, kSM_89, kSM_90, 0, 61}

SequenceLengths == {-1, 0, 32, 64, 96, 128, 129, 256, 384, 512}

\* IntType ceildiv(IntType a, IntType b), in an unsigned type of IntBits bits
ceildiv(a, b) == ((a + b - 1) % IntModulus) \div b

\* IntType alignTo(IntType a, IntType b)
alignTo(a, b) == (ceildiv(a, b) * b) % IntModulus

\* convertAndCopyToDevice(src, float* destDev): what reaches the device.  A source
\* that is not kFLOAT is read as half, whatever its type: asHalf is what those reads
\* give (the source values themselves when the source is kHALF).
ToDeviceFloat(src, asHalf) ==
    IF src.type = "kFLOAT"
    THEN [outcome |-> "copied", bytes |-> src.count * SizeofFloat, data |-> src.values]
    ELSE [outcome |-> "copied", bytes |-> src.count * SizeofFloat,
          data |-> [i \in 1 .. src.count |-> half2float(asHalf[i])]]

\* convertAndCopyToDevice(src, half* destDev): a source that is not kHALF is read as float
ToDeviceHalf(src, asFloat) ==
    IF src.type = "kHALF"
    THEN [outcome |-> "copied", bytes |-> src.count * SizeofHalf, data |-> src.values]
    ELSE [outcome |-> "copied", bytes |-> src.count * SizeofHalf,
          data |-> [i \in 1 .. src.count |-> float2half(asFloat[i])]]

\* What reading the buffer of src as elements of type t gives: the values when src
\* holds that type, and any values of that type when it holds another one.
ReadAs(src, t) ==
    IF src.type = t THEN {src.values}
    ELSE [1 .. src.count -> IF t = "kHALF" THEN HalfSample ELSE FloatSample]

\* fieldTypeToDataType(ftype): the DataType returned, or the exception thrown
FieldTypeResult(ftype) ==
    CASE ftype = "kFLOAT32" -> [outcome |-> "ok", value |-> "kFLOAT"]
      [] ftype = "kFLOAT16" -> [outcome |-> "ok", value |-> "kHALF"]
      [] ftype = "kINT32" -> [outcome |-> "ok", value |-> "kINT32"]
      [] ftype = "kINT8" -> [outcome |-> "ok", value |-> "kINT8"]
      [] OTHER -> [outcome |-> "invalid_argument", value |-> "none"]

CallsInit == call = [fn |-> "none"]

CallConvertAndCopy(src, type) ==
    /\ LET r == ConvertElements(src, type)
           self == Stored([type |-> "kFLOAT", count |-> 0, values |-> NullPtr], type, src.count, r, 1)
       IN  call' = [fn |-> "convertAndCopy", srcType |-> src.type, dstType |-> type,
                    count |-> src.count, outcome |-> r.outcome, values |-> self.values]
    /\ UNCHANGED <<gvars, wvars, svars, rt>>

CallToDeviceFloat(src) ==
    /\ \E asHalf \in ReadAs(src, "kHALF") :
          LET r == ToDeviceFloat(src, asHalf)
          IN  call' = [fn |-> "convertAndCopyToDevice", srcType |-> src.type, dstType |-> "kFLOAT",
                       count |-> src.count, outcome |-> r.outcome, out |-> r.data]
    /\ UNCHANGED <<gvars, wvars, svars, rt>>

CallToDeviceHalf(src) ==
    /\ \E asFloat \in ReadAs(src, "kFLOAT") :
          LET r == ToDeviceHalf(src, asFloat)
          IN  call' = [fn |-> "convertAndCopyToDevice", srcType |-> src.type, dstType |-> "kHALF",
                       count |-> src.count, outcome |-> r.outcome, out |-> r.data]
    /\ UNCHANGED <<gvars, wvars, svars, rt>>

CallFieldTypeToDataType(ftype) ==
    /\ LET r == FieldTypeResult(ftype)
       IN  call' = [fn |-> "fieldTypeToDataType", ftype |-> ftype, outcome |-> r.outcome,
                    value |-> r.value]
    /\ UNCHANGED <<gvars, wvars, svars, rt>>

CallGetMHAMaskPackedSize(smVersion, dataType, sequenceLength) ==
    /\ call' = [fn |-> "getMHAMaskPackedSize", smVersion |-> smVersion, dataType |-> dataType,
                sequenceLength |-> sequenceLength,
                result |-> getMHAMaskPackedSize(smVersion, dataType, sequenceLength)]
    /\ UNCHANGED <<gvars, wvars, svars, rt>>

CallCeildiv(a, b) ==
    /\ call' = [fn |-> "ceildiv", a |-> a, b |-> b, result |-> ceildiv(a, b)]
    /\ UNCHANGED <<gvars, wvars, svars, rt>>

CallAlignTo(a, b) ==
    /\ call' = [fn |-> "alignTo", a |-> a, b |-> b, result |-> alignTo(a, b)]
    /\ UNCHANGED <<gvars, wvars, svars, rt>>

CallsNext ==
    \/ \E src \in SrcWeights, type \in DataType : CallConvertAndCopy(src, type)
    \/ \E src \in SrcWeights : CallToDeviceFloat(src)
    \/ \E src \in SrcWeights : CallToDeviceHalf(src)
    \/ \E ftype \in PluginFieldType : CallFieldTypeToDataType(ftype)
    \/ \E smVersion \in SmVersions, dataType \in DataType, sequenceLength \in SequenceLengths :
          CallGetMHAMaskPackedSize(smVersion, dataType, sequenceLength)
    \/ \E a \in 1 .. IntMax, b \in 1 .. IntMax : CallCeildiv(a, b)
    \/ \E a \in 1 .. IntMax, b \in 1 .. IntMax : CallAlignTo(a, b)

(***************************************************************************)
(* A conversion and the conversion back                                    *)
(***************************************************************************)
FloatingTypes == {"kFLOAT", "kHALF"}

ValuesOf(t) == IF t = "kFLOAT" THEN FloatVals ELSE HalfVals

\* the Weights view of an object just after convertAndCopy(src, type) on it
Converted(src, type) ==
    LET r == ConvertElements(src, type)
    IN  [type |-> type, count |-> src.count, values |-> r.data, outcome |-> r.outcome]

Min(a, b) == IF a < b THEN a ELSE b

\* The source is a host buffer of at most MaxCount floats or halves: its first two
\* elements are any values of the type, the ones after them any of the sample values.
RtInit ==
    \E t \in FloatingTypes, d \in FloatingTypes, n \in 0 .. MaxCount :
       \E h \in [1 .. Min(n, 2) -> ValuesOf(t)], tl \in [1 .. n - Min(n, 2) -> SampleOf(t)] :
          LET s == [type |-> t, count |-> n, values |-> h \o tl]
          IN  rt = [stage |-> "source", src |-> s, dst |-> d, first |-> s, second |-> s]

\* first.convertAndCopy(src, dst)
RtConvert ==
    /\ rt.stage = "source"
    /\ rt' = [rt EXCEPT !.stage = "converted", !.first = Converted(rt.src, rt.dst)]
    /\ UNCHANGED <<gvars, wvars, svars, call>>

\* second.convertAndCopy(first, src.type)
RtConvertBack ==
    /\ rt.stage = "converted"
    /\ rt' = [rt EXCEPT !.stage = "back",
                        !.second = Converted([type |-> rt.first.type, count |-> rt.first.count,
                                              values |-> rt.first.values], rt.src.type)]
    /\ UNCHANGED <<gvars, wvars, svars, call>>

RtNext ==
    \/ RtConvert
    \/ RtConvertBack

(***************************************************************************)
(* serFromDev, deserToDev and the raw convertAndCopy on one serialized     *)
(* buffer (lines 168-186, 388-398)                                         *)
(***************************************************************************)
\* bytes of the serialized buffer the caller provides
SerCap == 6

\* most fields written to it
MaxFields == 3

\* the element types T the templates are instantiated with
CTypes == {"float", "half", "int8_t"}

\* sizeof(T)
SizeOf(T) == CASE T = "float" -> SizeofFloat [] T = "half" -> SizeofHalf [] OTHER -> 1

\* the DataType tag of a buffer of T
DataTypeOf(T) == CASE T = "float" -> "kFLOAT" [] T = "half" -> "kHALF" [] OTHER -> "kINT8"

\* cudaMemcpy(buffer, data, len, cudaMemcpyDeviceToHost) at the cursor, and the cursor after
SerWrite(buf, cur, data, len) ==
    [buf |-> [i \in 1 .. Len(buf) |-> IF cur < i /\ i <= cur + len THEN data[i - cur] ELSE buf[i]],
     cursor |-> cur + len]

SerInit ==
    /\ ser = [i \in 1 .. SerCap |-> 0]
    /\ wcur = 0
    /\ rcur = 0
    /\ written = << >>
    /\ nread = 0
    /\ sLast = [op |-> "none"]

\* serFromDev<T>(buffer, data, nbElem): data is the device buffer of nbElem elements.
\* The caller sized the serialized buffer for what it writes.
serFromDev(T, nbElem, data) ==
    /\ Len(written) < MaxFields
    /\ LET len == SizeOf(T) * nbElem
           r == SerWrite(ser, wcur, data, len)
       IN  /\ wcur + len <= SerCap
           /\ ser' = r.buf
           /\ wcur' = r.cursor
           /\ written' = Append(written, [T |-> T, nbElem |-> nbElem, bytes |-> data, start |-> wcur])
           /\ sLast' = [op |-> "serFromDev", field |-> Len(written) + 1, advance |-> r.cursor - wcur]
    /\ UNCHANGED <<rcur, nread, gvars, wvars, call, rt>>

\* deserToDev<T>(buffer, nbElem) on the next field, read as it was written
deserToDev ==
    /\ nread < Len(written)
    /\ LET f == written[nread + 1]
           len == SizeOf(f.T) * f.nbElem
           r == RawRead(ser, rcur, len)
       IN  /\ rcur' = r.cursor
           /\ sLast' = [op |-> "deserToDev", field |-> nread + 1, advance |-> r.cursor - rcur,
                        got |-> r.data]
    /\ nread' = nread + 1
    /\ UNCHANGED <<ser, wcur, written, gvars, wvars, call, rt>>

\* convertAndCopy(srcBuf, count, type) of a fresh object on the next field
deserRaw ==
    /\ nread < Len(written)
    /\ LET f == written[nread + 1]
           r == RawRead(ser, rcur, RawBytes(f.nbElem, DataTypeOf(f.T)))
       IN  /\ rcur' = r.cursor
           /\ sLast' = [op |-> "convertAndCopyRaw", field |-> nread + 1, advance |-> r.cursor - rcur,
                        got |-> r.data]
    /\ nread' = nread + 1
    /\ UNCHANGED <<ser, wcur, written, gvars, wvars, call, rt>>

\* the device buffers of nbElem elements of T that fit the room left
DeviceData(T, nbElem) ==
    IF wcur + SizeOf(T) * nbElem <= SerCap THEN [1 .. SizeOf(T) * nbElem -> Bytes] ELSE {}

SerNext ==
    \/ \E T \in CTypes, nbElem \in 0 .. MaxCount : \E data \in DeviceData(T, nbElem) :
          serFromDev(T, nbElem, data)
    \/ deserToDev
    \/ deserRaw

(***************************************************************************)
(* Specifications                                                          *)
(***************************************************************************)
GIdle ==
    /\ handle = GuardIdle.pre
    /\ guards = << >>
    /\ gLast = GuardIdle

WIdle ==
    /\ w = [type |-> "kFLOAT", count |-> 0, values |-> NullPtr]
    /\ content = << >>
    /\ heap = << >>
    /\ alive = FALSE
    /\ wLast = [op |-> "none", outcome |-> "ok"]

SIdle ==
    /\ ser = << >>
    /\ wcur = 0
    /\ rcur = 0
    /\ written = << >>
    /\ nread = 0
    /\ sLast = [op |-> "none"]

RtIdle == rt = [stage |-> "none"]

InitGuard == GInit /\ WIdle /\ SIdle /\ CallsInit /\ RtIdle

InitWeights == WInit /\ GIdle /\ SIdle /\ CallsInit /\ RtIdle

InitCalls == CallsInit /\ GIdle /\ WIdle /\ SIdle /\ RtIdle

InitRoundTrip == RtInit /\ GIdle /\ WIdle /\ SIdle /\ CallsInit

InitSer == SerInit /\ GIdle /\ WIdle /\ CallsInit /\ RtIdle

\* the scope guard on one handle
SpecGuard == InitGuard /\ [][GuardNext]_vars

\* one WeightsWithOwnership object, from construction to destruction
SpecWeights == InitWeights /\ [][WeightsNext]_vars

\* the free functions
SpecCalls == InitCalls /\ [][CallsNext]_vars

\* a buffer converted and converted back
SpecRoundTrip == InitRoundTrip /\ [][RtNext]_vars

\* fields written to and read from one serialized buffer
SpecSer == InitSer /\ [][SerNext]_vars

(***************************************************************************)
(* Properties                                                              *)
(***************************************************************************)
HostTensorOp == [pm |-> "CUBLAS_POINTER_MODE_HOST", mm |-> "CUBLAS_TENSOR_OP_MATH"]

\* C1: after a guard is destroyed, normally or by an exception, the handle has the
\* pointer mode and math mode it had just before that guard was constructed; every
\* live guard holds the modes the handle had before it; so when the outermost guard
\* is destroyed the handle is back at the modes it had outside.
C1_GuardRestoresModes ==
    /\ gLast.op = "dtor" => handle = gLast.pre
    /\ \A i \in 1 .. Len(guards) :
          /\ guards[i].pm = guards[i].before.pm
          /\ guards[i].mm = guards[i].before.mm

\* C1, its case: the outermost guard of a handle in device pointer mode and pedantic
\* math is destroyed by an exception, and the handle has these modes again.
C1_Witness ==
    /\ gLast.op = "dtor"
    /\ gLast.how = "exception"
    /\ guards = << >>
    /\ handle = [pm |-> "CUBLAS_POINTER_MODE_DEVICE", mm |-> "CUBLAS_PEDANTIC_MATH"]

\* C10: a construction that fails leaves the handle's modes as they were before it
\* was attempted, and while a guard is alive the handle is in host pointer mode and
\* tensor-op math.
C10_CtorAllOrNothing ==
    /\ gLast.op = "ctorFailed" => handle = gLast.pre
    /\ guards # << >> => handle = HostTensorOp

\* the bytes of the buffer a pointer points to
BufferBytes(ptr) == IF ptr = NullPtr THEN 0 ELSE heap[ptr].bytes

\* C2: in every state of a live object the buffer values points to has
\* count * getElementSize(type) bytes, and a fresh object has no buffer and count 0.
C2_BufferSizeMatches ==
    /\ alive => BufferBytes(w.values) = w.count * getElementSize(w.type)
    /\ wLast.op = "construct" => w.values = NullPtr /\ w.count = 0

\* C3: construction allocates nothing; no buffer is released twice; once the object
\* is destroyed every buffer it allocated has been released exactly once; while it
\* lives every unreleased buffer is the one values points to.
C3_EveryBufferReleasedOnce ==
    /\ wLast.op = "construct" => heap = << >>
    /\ \A i \in 1 .. Len(heap) : heap[i].released <= 1
    /\ ~alive => \A i \in 1 .. Len(heap) : heap[i].released = 1
    /\ alive => \A i \in 1 .. Len(heap) : heap[i].released = 0 => w.values = i

\* the bytes of the serialized buffer that field f occupies
FieldBytes(f) == SubSeq(ser, f.start + 1, f.start + Len(f.bytes))

\* C4: serFromDev advances the write cursor by nbElem * element size; reading the
\* fields back in the order written, with deserToDev or the raw convertAndCopy, gives
\* each field's original bytes and advances the read cursor by the same nbElem *
\* element size; the serialized bytes of every field stay as written.
C4_SerializeRoundTrip ==
    /\ sLast.op = "serFromDev" =>
          sLast.advance = written[sLast.field].nbElem * SizeOf(written[sLast.field].T)
    /\ sLast.op \in {"deserToDev", "convertAndCopyRaw"} =>
          /\ sLast.got = written[sLast.field].bytes
          /\ sLast.advance = written[sLast.field].nbElem * SizeOf(written[sLast.field].T)
          /\ sLast.field = nread
    /\ \A k \in 1 .. Len(written) : FieldBytes(written[k]) = written[k].bytes
    /\ nread = Len(written) => rcur = wcur

\* C4, its case: the second of two non-empty fields is read back by the raw
\* convertAndCopy, and it holds a byte that is not zero.
C4_Witness ==
    /\ sLast.op = "convertAndCopyRaw"
    /\ sLast.field = 2
    /\ Len(written[1].bytes) > 0
    /\ written[1].T # written[2].T
    /\ Len(sLast.got) > 1
    /\ \E i \in 1 .. Len(sLast.got) : sLast.got[i] = 1

C6_CeildivBounds ==
    /\ call.fn = "ceildiv" => call.result * call.b >= call.a /\ call.result * call.b < call.a + call.b
    /\ call.fn = "alignTo" =>
          /\ call.result >= call.a
          /\ call.result < call.a + call.b
          /\ call.result % call.b = 0

\* C7: the typed convertAndCopy ends in the unsupported-type error, with no buffer,
\* for every destination type other than FLOAT and HALF, whatever the source; and
\* fieldTypeToDataType maps FLOAT32, FLOAT16, INT32 and INT8 to FLOAT, HALF, INT32 and
\* INT8 and raises an error for every other field type.
C7_InputErrorsAreRaised ==
    /\ call.fn = "convertAndCopy" /\ call.dstType \notin {"kFLOAT", "kHALF"} =>
          call.outcome = "unsupported_type" /\ call.values = NullPtr
    /\ call.fn = "convertAndCopy" /\ call.dstType \in {"kFLOAT", "kHALF"} =>
          call.outcome # "unsupported_type"
    /\ call.fn = "fieldTypeToDataType" =>
          CASE call.ftype = "kFLOAT32" -> call.outcome = "ok" /\ call.value = "kFLOAT"
            [] call.ftype = "kFLOAT16" -> call.outcome = "ok" /\ call.value = "kHALF"
            [] call.ftype = "kINT32" -> call.outcome = "ok" /\ call.value = "kINT32"
            [] call.ftype = "kINT8" -> call.outcome = "ok" /\ call.value = "kINT8"
            [] OTHER -> call.outcome = "invalid_argument"

\* C7, its case: a full buffer of halves and the destination type INT8.
C7_Witness ==
    /\ call.fn = "convertAndCopy"
    /\ call.srcType = "kHALF"
    /\ call.dstType = "kINT8"
    /\ call.count = MaxCount
    /\ call.outcome = "unsupported_type"

\* y is x up to the rounding of half: the same kind of value and, when finite, no
\* further from x than half the spacing of half at x
WithinHalfRounding(x, y) ==
    /\ x.k = y.k
    /\ x.k = "inf" => x.v = y.v
    /\ x.k = "fin" => 2 * Abs(x.v - y.v) <= Pow2(HalfExp(Abs(x.v), 0))

\* a float that half holds up to rounding: not a finite value beyond the largest half
InHalfRange(x) == x.k = "fin" => Abs(x.v) <= HalfMax

\* the round trip recovers the count, and the values exactly when the types are
\* equal or the source is HALF
RoundTripExact ==
    /\ rt.second.outcome = "ok"
    /\ rt.second.type = rt.src.type
    /\ rt.second.count = rt.src.count
    /\ rt.src.type = rt.dst \/ rt.src.type = "kHALF" => rt.second.values = rt.src.values

C9_NonFloatSourceRejected ==
    /\ call.fn \in {"convertAndCopy", "convertAndCopyToDevice"}
    /\ call.srcType \notin {"kFLOAT", "kHALF"}
    /\ call.dstType \in {"kFLOAT", "kHALF"}
    /\ call.count > 0
    => call.outcome = "assert"

====
